---- MODULE Spec2Model ----
(***************************************************************************)
(* Model of the romanization chunker of src/main.rs: the kana table, the   *)
(* three combine parsers kana_chunk, parenthetical and japanese, and the   *)
(* calls main makes on them.                                               *)
(*                                                                         *)
(* A Rust char is modelled by a string naming it: "hira_KA" is HIRAGANA    *)
(* LETTER KA, "kata_small_E" is KATAKANA LETTER SMALL E, "hira_small_TU"   *)
(* and "kata_small_TU" are the two sokuon, "prolonged_sound_mark" is the   *)
(* long-vowel mark, "U+4EAC" is the kanji with that code point, and an     *)
(* ASCII character stands for itself.  A Rust String is the sequence of    *)
(* its chars; a romanized spelling is the sequence of its ASCII letters.   *)
(*                                                                         *)
(* A parser applied to input s with p characters already consumed returns  *)
(* [st, pos, out]: st is "Ok", "PeekErr" (failed without consuming) or     *)
(* "CommitErr" (failed after consuming), which is how combine's sequence,  *)
(* choice, optional, many and many1 decide between backtracking and        *)
(* failing.                                                                *)
(***************************************************************************)
EXTENDS Integers, Sequences, FiniteSets, TLC

VARIABLES entry, input, gen, pos, part, last, result

vars == <<entry, input, gen, pos, part, last, result>>

\* Bounds of the explored inputs.
MaxLen == 4
MaxUnits == 3
MaxRun == 1
MaxReading == 2

\* static HIRAGANA (main.rs line 4)
HIRAGANA ==
  {
    "hira_A", "hira_I", "hira_U", "hira_E", "hira_O", "hira_KA", "hira_GA",
    "hira_KI", "hira_GI", "hira_KU", "hira_GU", "hira_KE", "hira_GE",
    "hira_KO", "hira_GO", "hira_SA", "hira_ZA", "hira_SI", "hira_ZI",
    "hira_SU", "hira_ZU", "hira_SE", "hira_ZE", "hira_SO", "hira_ZO",
    "hira_TA", "hira_DA", "hira_TI", "hira_DI", "hira_TU", "hira_DU",
    "hira_TE", "hira_DE", "hira_TO", "hira_DO", "hira_NA", "hira_NI",
    "hira_NU", "hira_NE", "hira_NO", "hira_HA", "hira_BA", "hira_PA",
    "hira_HI", "hira_BI", "hira_PI", "hira_HU", "hira_BU", "hira_PU",
    "hira_HE", "hira_BE", "hira_PE", "hira_HO", "hira_BO", "hira_PO",
    "hira_MA", "hira_MI", "hira_MU", "hira_ME", "hira_MO", "hira_YA",
    "hira_YU", "hira_YO", "hira_RA", "hira_RI", "hira_RU", "hira_RE",
    "hira_RO", "hira_WA", "hira_WI", "hira_WE", "hira_WO", "hira_N",
    "prolonged_sound_mark" }

\* static KATAKANA (main.rs line 5)
KATAKANA ==
  {
    "kata_A", "kata_I", "kata_U", "kata_E", "kata_O", "kata_KA", "kata_GA",
    "kata_KI", "kata_GI", "kata_KU", "kata_GU", "kata_KE", "kata_GE",
    "kata_KO", "kata_GO", "kata_SA", "kata_ZA", "kata_SI", "kata_ZI",
    "kata_SU", "kata_ZU", "kata_SE", "kata_ZE", "kata_SO", "kata_ZO",
    "kata_TA", "kata_DA", "kata_TI", "kata_DI", "kata_TU", "kata_DU",
    "kata_TE", "kata_DE", "kata_TO", "kata_DO", "kata_NA", "kata_NI",
    "kata_NU", "kata_NE", "kata_NO", "kata_HA", "kata_BA", "kata_PA",
    "kata_HI", "kata_BI", "kata_PI", "kata_HU", "kata_BU", "kata_PU",
    "kata_HE", "kata_BE", "kata_PE", "kata_HO", "kata_BO", "kata_PO",
    "kata_MA", "kata_MI", "kata_MU", "kata_ME", "kata_MO", "kata_YA",
    "kata_YU", "kata_YO", "kata_RA", "kata_RI", "kata_RU", "kata_RE",
    "kata_RO", "kata_WA", "kata_WI", "kata_WE", "kata_WO", "kata_N",
    "prolonged_sound_mark" }

\* static SUTEGANA (main.rs line 6)
SUTEGANA ==
  {
    "kata_small_A", "kata_small_I", "kata_small_U", "kata_small_E",
    "kata_small_O", "kata_small_YA", "kata_small_YU", "kata_small_YO",
    "hira_small_A", "hira_small_I", "hira_small_U", "hira_small_E",
    "hira_small_O", "hira_small_YA", "hira_small_YU", "hira_small_YO" }

\* static SOKUON (main.rs line 7)
SOKUON ==
  {
    "hira_small_TU", "kata_small_TU" }


\* Option<T> of the Rust code.
None == [some |-> FALSE, val |-> <<>>]

Some(v) == [some |-> TRUE, val |-> v]

\* let v = ...; body: v is computed once and body is applied to its value.
Bind(v, Body(_)) == CHOOSE y \in {Body(x) : x \in {v}} : TRUE

\* The arms of the match in fn kana_to_typed_chunks (main.rs lines 28-245),
\* each <<pattern, spelling>>; no pattern occurs twice.
KanaArms ==
  { <<<<"hira_A">>, <<"a">>>>,
    <<<<"hira_I">>, <<"i">>>>,
    <<<<"hira_U">>, <<"u">>>>,
    <<<<"hira_E">>, <<"e">>>>,
    <<<<"hira_O">>, <<"o">>>>,
    <<<<"hira_KA">>, <<"k", "a">>>>,
    <<<<"hira_GA">>, <<"g", "a">>>>,
    <<<<"hira_KI">>, <<"k", "i">>>>,
    <<<<"hira_GI">>, <<"g", "i">>>>,
    <<<<"hira_KU">>, <<"k", "u">>>>,
    <<<<"hira_GU">>, <<"g", "u">>>>,
    <<<<"hira_KE">>, <<"k", "e">>>>,
    <<<<"hira_GE">>, <<"g", "e">>>>,
    <<<<"hira_KO">>, <<"k", "o">>>>,
    <<<<"hira_GO">>, <<"g", "o">>>>,
    <<<<"hira_SA">>, <<"s", "a">>>>,
    <<<<"hira_ZA">>, <<"z", "a">>>>,
    <<<<"hira_SI">>, <<"s", "h", "i">>>>,
    <<<<"hira_ZI">>, <<"j", "i">>>>,
    <<<<"hira_SU">>, <<"s", "u">>>>,
    <<<<"hira_ZU">>, <<"z", "u">>>>,
    <<<<"hira_SE">>, <<"s", "e">>>>,
    <<<<"hira_ZE">>, <<"z", "e">>>>,
    <<<<"hira_SO">>, <<"s", "o">>>>,
    <<<<"hira_ZO">>, <<"z", "o">>>>,
    <<<<"hira_TA">>, <<"t", "a">>>>,
    <<<<"hira_DA">>, <<"d", "a">>>>,
    <<<<"hira_TI">>, <<"c", "h", "i">>>>,
    <<<<"hira_DI">>, <<"j", "i">>>>,
    <<<<"hira_TU">>, <<"t", "s", "u">>>>,
    <<<<"hira_DU">>, <<"d", "z", "u">>>>,
    <<<<"hira_TE">>, <<"t", "e">>>>,
    <<<<"hira_DE">>, <<"d", "e">>>>,
    <<<<"hira_TO">>, <<"t", "o">>>>,
    <<<<"hira_DO">>, <<"d", "o">>>>,
    <<<<"hira_NA">>, <<"n", "a">>>>,
    <<<<"hira_NI">>, <<"n", "i">>>>,
    <<<<"hira_NU">>, <<"n", "u">>>>,
    <<<<"hira_NE">>, <<"n", "e">>>>,
    <<<<"hira_NO">>, <<"n", "o">>>>,
    <<<<"hira_HA">>, <<"h", "a">>>>,
    <<<<"hira_BA">>, <<"b", "a">>>>,
    <<<<"hira_PA">>, <<"p", "a">>>>,
    <<<<"hira_HI">>, <<"h", "i">>>>,
    <<<<"hira_BI">>, <<"b", "i">>>>,
    <<<<"hira_PI">>, <<"p", "i">>>>,
    <<<<"hira_HU">>, <<"f", "u">>>>,
    <<<<"hira_BU">>, <<"b", "u">>>>,
    <<<<"hira_PU">>, <<"p", "u">>>>,
    <<<<"hira_HE">>, <<"h", "e">>>>,
    <<<<"hira_BE">>, <<"b", "e">>>>,
    <<<<"hira_PE">>, <<"p", "e">>>>,
    <<<<"hira_HO">>, <<"h", "o">>>>,
    <<<<"hira_BO">>, <<"b", "o">>>>,
    <<<<"hira_PO">>, <<"p", "o">>>>,
    <<<<"hira_MA">>, <<"m", "a">>>>,
    <<<<"hira_MI">>, <<"m", "i">>>>,
    <<<<"hira_MU">>, <<"m", "u">>>>,
    <<<<"hira_ME">>, <<"m", "e">>>>,
    <<<<"hira_MO">>, <<"m", "o">>>>,
    <<<<"hira_YA">>, <<"y", "a">>>>,
    <<<<"hira_YU">>, <<"y", "u">>>>,
    <<<<"hira_YO">>, <<"y", "o">>>>,
    <<<<"hira_RA">>, <<"r", "a">>>>,
    <<<<"hira_RI">>, <<"r", "i">>>>,
    <<<<"hira_RU">>, <<"r", "u">>>>,
    <<<<"hira_RE">>, <<"r", "e">>>>,
    <<<<"hira_RO">>, <<"r", "o">>>>,
    <<<<"hira_WA">>, <<"w", "a">>>>,
    <<<<"hira_WI">>, <<"w", "i">>>>,
    <<<<"hira_WE">>, <<"w", "e">>>>,
    <<<<"hira_WO">>, <<"w", "o">>>>,
    <<<<"hira_N">>, <<"n", "n">>>>,
    <<<<"hira_KI", "hira_small_YA">>, <<"k", "y", "a">>>>,
    <<<<"hira_KI", "hira_small_YU">>, <<"k", "y", "u">>>>,
    <<<<"hira_KI", "hira_small_YO">>, <<"k", "y", "o">>>>,
    <<<<"hira_SI", "hira_small_YA">>, <<"s", "h", "a">>>>,
    <<<<"hira_SI", "hira_small_YU">>, <<"s", "h", "u">>>>,
    <<<<"hira_SI", "hira_small_YO">>, <<"s", "h", "o">>>>,
    <<<<"hira_TI", "hira_small_YA">>, <<"c", "h", "a">>>>,
    <<<<"hira_TI", "hira_small_YU">>, <<"c", "h", "u">>>>,
    <<<<"hira_TI", "hira_small_YO">>, <<"c", "h", "o">>>>,
    <<<<"hira_NI", "hira_small_YA">>, <<"n", "y", "a">>>>,
    <<<<"hira_NI", "hira_small_YU">>, <<"n", "y", "u">>>>,
    <<<<"hira_NI", "hira_small_YO">>, <<"n", "y", "o">>>>,
    <<<<"hira_HI", "hira_small_YA">>, <<"h", "y", "a">>>>,
    <<<<"hira_HI", "hira_small_YU">>, <<"h", "y", "u">>>>,
    <<<<"hira_HI", "hira_small_YO">>, <<"h", "y", "o">>>>,
    <<<<"hira_MI", "hira_small_YA">>, <<"m", "y", "a">>>>,
    <<<<"hira_MI", "hira_small_YU">>, <<"m", "y", "u">>>>,
    <<<<"hira_MI", "hira_small_YO">>, <<"m", "y", "o">>>>,
    <<<<"hira_RI", "hira_small_YA">>, <<"r", "y", "a">>>>,
    <<<<"hira_RI", "hira_small_YU">>, <<"r", "y", "u">>>>,
    <<<<"hira_RI", "hira_small_YO">>, <<"r", "y", "o">>>>,
    <<<<"hira_GI", "hira_small_YA">>, <<"g", "y", "a">>>>,
    <<<<"hira_GI", "hira_small_YU">>, <<"g", "y", "u">>>>,
    <<<<"hira_GI", "hira_small_YO">>, <<"g", "y", "o">>>>,
    <<<<"hira_ZI", "hira_small_YA">>, <<"j", "a">>>>,
    <<<<"hira_ZI", "hira_small_YU">>, <<"j", "u">>>>,
    <<<<"hira_ZI", "hira_small_YO">>, <<"j", "o">>>>,
    <<<<"hira_BI", "hira_small_YA">>, <<"b", "y", "a">>>>,
    <<<<"hira_BI", "hira_small_YU">>, <<"b", "y", "u">>>>,
    <<<<"hira_BI", "hira_small_YO">>, <<"b", "y", "o">>>>,
    <<<<"hira_PI", "hira_small_YA">>, <<"p", "y", "a">>>>,
    <<<<"hira_PI", "hira_small_YU">>, <<"p", "y", "u">>>>,
    <<<<"hira_PI", "hira_small_YO">>, <<"p", "y", "o">>>>,
    <<<<"kata_A">>, <<"a">>>>,
    <<<<"kata_I">>, <<"i">>>>,
    <<<<"kata_U">>, <<"u">>>>,
    <<<<"kata_E">>, <<"e">>>>,
    <<<<"kata_O">>, <<"o">>>>,
    <<<<"kata_KA">>, <<"k", "a">>>>,
    <<<<"kata_GA">>, <<"g", "a">>>>,
    <<<<"kata_KI">>, <<"k", "i">>>>,
    <<<<"kata_GI">>, <<"g", "i">>>>,
    <<<<"kata_KU">>, <<"k", "u">>>>,
    <<<<"kata_GU">>, <<"g", "u">>>>,
    <<<<"kata_KE">>, <<"k", "e">>>>,
    <<<<"kata_GE">>, <<"g", "e">>>>,
    <<<<"kata_KO">>, <<"k", "o">>>>,
    <<<<"kata_GO">>, <<"g", "o">>>>,
    <<<<"kata_SA">>, <<"s", "a">>>>,
    <<<<"kata_ZA">>, <<"z", "a">>>>,
    <<<<"kata_SI">>, <<"s", "h", "i">>>>,
    <<<<"kata_ZI">>, <<"j", "i">>>>,
    <<<<"kata_SU">>, <<"s", "u">>>>,
    <<<<"kata_ZU">>, <<"z", "u">>>>,
    <<<<"kata_SE">>, <<"s", "e">>>>,
    <<<<"kata_ZE">>, <<"z", "e">>>>,
    <<<<"kata_SO">>, <<"s", "o">>>>,
    <<<<"kata_ZO">>, <<"z", "o">>>>,
    <<<<"kata_TA">>, <<"t", "a">>>>,
    <<<<"kata_DA">>, <<"d", "a">>>>,
    <<<<"kata_TI">>, <<"c", "h", "i">>>>,
    <<<<"kata_DI">>, <<"j", "i">>>>,
    <<<<"kata_TU">>, <<"t", "s", "u">>>>,
    <<<<"kata_DU">>, <<"d", "z", "u">>>>,
    <<<<"kata_TE">>, <<"t", "e">>>>,
    <<<<"kata_DE">>, <<"d", "e">>>>,
    <<<<"kata_TO">>, <<"t", "o">>>>,
    <<<<"kata_DO">>, <<"d", "o">>>>,
    <<<<"kata_NA">>, <<"n", "a">>>>,
    <<<<"kata_NI">>, <<"n", "i">>>>,
    <<<<"kata_NU">>, <<"n", "u">>>>,
    <<<<"kata_NE">>, <<"n", "e">>>>,
    <<<<"kata_NO">>, <<"n", "o">>>>,
    <<<<"kata_HA">>, <<"h", "a">>>>,
    <<<<"kata_BA">>, <<"b", "a">>>>,
    <<<<"kata_PA">>, <<"p", "a">>>>,
    <<<<"kata_HI">>, <<"h", "i">>>>,
    <<<<"kata_BI">>, <<"b", "i">>>>,
    <<<<"kata_PI">>, <<"p", "i">>>>,
    <<<<"kata_HU">>, <<"f", "u">>>>,
    <<<<"kata_BU">>, <<"b", "u">>>>,
    <<<<"kata_PU">>, <<"p", "u">>>>,
    <<<<"kata_HE">>, <<"h", "e">>>>,
    <<<<"kata_BE">>, <<"b", "e">>>>,
    <<<<"kata_PE">>, <<"p", "e">>>>,
    <<<<"kata_HO">>, <<"h", "o">>>>,
    <<<<"kata_BO">>, <<"b", "o">>>>,
    <<<<"kata_PO">>, <<"p", "o">>>>,
    <<<<"kata_MA">>, <<"m", "a">>>>,
    <<<<"kata_MI">>, <<"m", "i">>>>,
    <<<<"kata_MU">>, <<"m", "u">>>>,
    <<<<"kata_ME">>, <<"m", "e">>>>,
    <<<<"kata_MO">>, <<"m", "o">>>>,
    <<<<"kata_YA">>, <<"y", "a">>>>,
    <<<<"kata_YU">>, <<"y", "u">>>>,
    <<<<"kata_YO">>, <<"y", "o">>>>,
    <<<<"kata_RA">>, <<"r", "a">>>>,
    <<<<"kata_RI">>, <<"r", "i">>>>,
    <<<<"kata_RU">>, <<"r", "u">>>>,
    <<<<"kata_RE">>, <<"r", "e">>>>,
    <<<<"kata_RO">>, <<"r", "o">>>>,
    <<<<"kata_WA">>, <<"w", "a">>>>,
    <<<<"kata_WI">>, <<"w", "i">>>>,
    <<<<"kata_WE">>, <<"w", "e">>>>,
    <<<<"kata_WO">>, <<"w", "o">>>>,
    <<<<"kata_N">>, <<"n", "n">>>>,
    <<<<"prolonged_sound_mark">>, <<"-">>>>,
    <<<<"kata_KI", "kata_small_YA">>, <<"k", "y", "a">>>>,
    <<<<"kata_KI", "kata_small_YU">>, <<"k", "y", "u">>>>,
    <<<<"kata_KI", "kata_small_YO">>, <<"k", "y", "o">>>>,
    <<<<"kata_SI", "kata_small_YA">>, <<"s", "h", "a">>>>,
    <<<<"kata_SI", "kata_small_YU">>, <<"s", "h", "u">>>>,
    <<<<"kata_SI", "kata_small_YO">>, <<"s", "h", "o">>>>,
    <<<<"kata_TI", "kata_small_YA">>, <<"c", "h", "a">>>>,
    <<<<"kata_TI", "kata_small_YU">>, <<"c", "h", "u">>>>,
    <<<<"kata_TI", "kata_small_YO">>, <<"c", "h", "o">>>>,
    <<<<"kata_NI", "kata_small_YA">>, <<"n", "y", "a">>>>,
    <<<<"kata_NI", "kata_small_YU">>, <<"n", "y", "u">>>>,
    <<<<"kata_NI", "kata_small_YO">>, <<"n", "y", "o">>>>,
    <<<<"kata_HI", "kata_small_YA">>, <<"h", "y", "a">>>>,
    <<<<"kata_HI", "kata_small_YU">>, <<"h", "y", "u">>>>,
    <<<<"kata_HI", "kata_small_YO">>, <<"h", "y", "o">>>>,
    <<<<"kata_MI", "kata_small_YA">>, <<"m", "y", "a">>>>,
    <<<<"kata_MI", "kata_small_YU">>, <<"m", "y", "u">>>>,
    <<<<"kata_MI", "kata_small_YO">>, <<"m", "y", "o">>>>,
    <<<<"kata_RI", "kata_small_YA">>, <<"r", "y", "a">>>>,
    <<<<"kata_RI", "kata_small_YU">>, <<"r", "y", "u">>>>,
    <<<<"kata_RI", "kata_small_YO">>, <<"r", "y", "o">>>>,
    <<<<"kata_GI", "kata_small_YA">>, <<"g", "y", "a">>>>,
    <<<<"kata_GI", "kata_small_YU">>, <<"g", "y", "u">>>>,
    <<<<"kata_GI", "kata_small_YO">>, <<"g", "y", "o">>>>,
    <<<<"kata_ZI", "kata_small_YA">>, <<"j", "a">>>>,
    <<<<"kata_ZI", "kata_small_YU">>, <<"j", "u">>>>,
    <<<<"kata_ZI", "kata_small_YO">>, <<"j", "o">>>>,
    <<<<"kata_BI", "kata_small_YA">>, <<"b", "y", "a">>>>,
    <<<<"kata_BI", "kata_small_YU">>, <<"b", "y", "u">>>>,
    <<<<"kata_BI", "kata_small_YO">>, <<"b", "y", "o">>>>,
    <<<<"kata_PI", "kata_small_YA">>, <<"p", "y", "a">>>>,
    <<<<"kata_PI", "kata_small_YU">>, <<"p", "y", "u">>>>,
    <<<<"kata_PI", "kata_small_YO">>, <<"p", "y", "o">>>>,
    <<<<"kata_U", "kata_small_E">>, <<"w", "e">>>> }

\* fn kana_to_typed_chunks (main.rs lines 25-248): Some(spelling) of the arm
\* whose pattern is kana, None (the arm _) when there is none.
kana_to_typed_chunks(kana) ==
  Bind({arm \in KanaArms : arm[1] = kana}, LAMBDA arms :
    IF arms = {} THEN None ELSE Some((CHOOSE arm \in arms : TRUE)[2]))

\* struct DisplayedTypedPair (main.rs lines 19-23).
DisplayedTypedPair(displayed, typed) == [displayed |-> displayed, typed |-> typed]

\* Results of a parser: success with its output, or one of the two failures.
Ok(p, out) == [st |-> "Ok", pos |-> p, out |-> out]

PeekErr(p) == [st |-> "PeekErr", pos |-> p, out |-> <<>>]

CommitErr(p) == [st |-> "CommitErr", pos |-> p, out |-> <<>>]

\* A sequence parser fails "Peek" only if nothing was consumed since start.
ErrAt(start, p) == IF p > start THEN CommitErr(p) ELSE PeekErr(start)

\* optional(one_of(set.chars())) at position p: Some(c) and one char consumed,
\* or None and nothing consumed (main.rs lines 307 and 309).
optional_one_of(set, s, p) ==
  IF p < Len(s) /\ s[p + 1] \in set
    THEN [opt |-> Some(s[p + 1]), pos |-> p + 1]
    ELSE [opt |-> None, pos |-> p]

\* Mutants of the closure of kana_chunk.
KanaChunkMap_NoSokuonPair(sokuon, hiragana, sutegana) ==
  LET combined == IF sutegana.some THEN <<hiragana, sutegana.val>> ELSE <<hiragana>>
  IN  Bind(kana_to_typed_chunks(combined), LAMBDA typed :
        IF typed.some THEN <<DisplayedTypedPair(combined, typed.val)>> ELSE <<>>)

KanaChunkMap_SokuonWholeSpelling(sokuon, hiragana, sutegana) ==
  LET combined == IF sutegana.some THEN <<hiragana, sutegana.val>> ELSE <<hiragana>>
  IN  Bind(kana_to_typed_chunks(combined), LAMBDA typed :
        IF typed.some
          THEN (IF sokuon.some
                  THEN <<DisplayedTypedPair(<<sokuon.val>>, typed.val)>>
                  ELSE <<>>)
               \o <<DisplayedTypedPair(combined, typed.val)>>
          ELSE <<>>)

\* The closure kana_chunk maps over (sokuon, hiragana, sutegana)
\* (main.rs lines 312-338): combined is the mora plus the sutegana if one was
\* consumed; if the table has combined, push the sokuon pair (typed: the
\* first char of the spelling) when a sokuon was consumed, then the pair of
\* combined; if the table has no entry, pairs stays empty.
KanaChunkMap(sokuon, hiragana, sutegana) ==
  LET combined == IF sutegana.some THEN <<hiragana, sutegana.val>> ELSE <<hiragana>>
  IN  Bind(kana_to_typed_chunks(combined), LAMBDA typed :
        IF typed.some
          THEN (IF sokuon.some
                  THEN <<DisplayedTypedPair(<<sokuon.val>>, <<Head(typed.val)>>)>>
                  ELSE <<>>)
               \o <<DisplayedTypedPair(combined, typed.val)>>
          ELSE <<>>)

\* Mutants of the parser kana_chunk: one that never takes the sutegana, one
\* that gives back the characters of a unit the table does not have.
kana_chunk_NoSutegana(s, p) ==
  Bind(optional_one_of(SOKUON, s, p), LAMBDA sok :
    IF sok.pos < Len(s) /\ s[sok.pos + 1] \in (HIRAGANA \cup KATAKANA)
      THEN Ok(sok.pos + 1, KanaChunkMap(sok.opt, s[sok.pos + 1], None))
      ELSE ErrAt(p, sok.pos))

kana_chunk_NoAdvance(s, p) ==
  Bind(optional_one_of(SOKUON, s, p), LAMBDA sok :
    IF sok.pos < Len(s) /\ s[sok.pos + 1] \in (HIRAGANA \cup KATAKANA)
      THEN Bind(optional_one_of(SUTEGANA, s, sok.pos + 1), LAMBDA sut :
             Bind(KanaChunkMap(sok.opt, s[sok.pos + 1], sut.opt), LAMBDA pairs :
               IF pairs = <<>> THEN Ok(p, pairs) ELSE Ok(sut.pos, pairs)))
      ELSE ErrAt(p, sok.pos))

\* fn kana_chunk (main.rs lines 301-340): the tuple parser
\* (optional sokuon, one hiragana or katakana, optional sutegana) mapped by
\* the closure.  The sutegana is taken whenever one follows, before any
\* table lookup.  With a sokuon consumed and no mora after it the failure is
\* a CommitErr.
kana_chunk(s, p) ==
  Bind(optional_one_of(SOKUON, s, p), LAMBDA sok :
    IF sok.pos < Len(s) /\ s[sok.pos + 1] \in (HIRAGANA \cup KATAKANA)
      THEN Bind(optional_one_of(SUTEGANA, s, sok.pos + 1), LAMBDA sut :
             Ok(sut.pos, KanaChunkMap(sok.opt, s[sok.pos + 1], sut.opt)))
      ELSE ErrAt(p, sok.pos))

\* many(kana_chunk()) of main.rs line 285: apply kana_chunk until it fails;
\* a PeekErr ends the repetition with what was collected, a CommitErr fails
\* the whole repetition.
RECURSIVE many_kana_chunk(_, _)
many_kana_chunk(s, p) ==
  Bind(kana_chunk(s, p), LAMBDA r :
    CASE r.st = "CommitErr" -> r
      [] r.st = "PeekErr" -> Ok(p, <<>>)
      [] OTHER -> Bind(many_kana_chunk(s, r.pos), LAMBDA more :
                    IF more.st = "Ok"
                      THEN Ok(more.pos, <<r.out>> \o more.out)
                      ELSE more))

\* many1(satisfy(|c| c != '(')) of main.rs line 281: the position after the
\* longest run of characters other than '(' starting at p (p itself if there
\* is none, which is the parser's PeekErr).
RECURSIVE many1_not_open(_, _)
many1_not_open(s, p) ==
  IF p < Len(s) /\ s[p + 1] # "(" THEN many1_not_open(s, p + 1) ELSE p

\* Concatenation of a sequence of sequences (Iterator::flatten, and the fold
\* with push_str of main.rs lines 293-296).
RECURSIVE Flatten(_)
Flatten(ss) == IF ss = <<>> THEN <<>> ELSE Head(ss) \o Flatten(Tail(ss))

\* Mutant of the closure of parenthetical: folds the pairs' displayed kana.
ParentheticalMap_Displayed(outside, inside) ==
  Bind(Flatten(inside), LAMBDA items :
    DisplayedTypedPair(outside, Flatten([i \in 1..Len(items) |-> items[i].displayed])))

\* The closure parenthetical maps over (outside, inside) (main.rs lines
\* 287-298): typed is the concatenation of the typed strings of every pair
\* the inner kana_chunks produced, displayed is the outside run.
ParentheticalMap(outside, inside) ==
  Bind(Flatten(inside), LAMBDA items :
    DisplayedTypedPair(outside, Flatten([i \in 1..Len(items) |-> items[i].typed])))

\* fn parenthetical (main.rs lines 276-299): a run of one or more characters
\* other than '(', then '(' many(kana_chunk) ')'.
parenthetical(s, p) ==
  Bind(many1_not_open(s, p), LAMBDA q :
    IF q = p THEN PeekErr(p)
    ELSE IF ~(q < Len(s) /\ s[q + 1] = "(") THEN CommitErr(q)
    ELSE Bind(many_kana_chunk(s, q + 1), LAMBDA inside :
           IF inside.st # "Ok" THEN CommitErr(inside.pos)
           ELSE IF ~(inside.pos < Len(s) /\ s[inside.pos + 1] = ")")
                  THEN CommitErr(inside.pos)
           ELSE Ok(inside.pos + 1,
                   ParentheticalMap(SubSeq(s, p + 1, q), inside.out))))

\* choice((kana_chunk(), parenthetical().map(|x| vec![x]))) of main.rs lines
\* 255-258: the second alternative is tried only when the first fails
\* without consuming; alt names the alternative that decided.
choice(s, p) ==
  Bind(kana_chunk(s, p), LAMBDA k :
    IF k.st # "PeekErr"
      THEN [st |-> k.st, pos |-> k.pos, out |-> k.out, alt |-> "kana_chunk"]
      ELSE Bind(parenthetical(s, p), LAMBDA f :
             [st |-> f.st, pos |-> f.pos,
              out |-> IF f.st = "Ok" THEN <<f.out>> ELSE <<>>,
              alt |-> "parenthetical"]))

\* Mutant of the closure of japanese: the two pushes exchanged.
JapaneseMap_Swapped(parts) ==
  Bind(Flatten(parts), LAMBDA items :
    [typed_chunks |-> [i \in 1..Len(items) |-> items[i].displayed],
     displayed_chunks |-> [i \in 1..Len(items) |-> items[i].typed],
     fixed |-> FALSE, disabled |-> FALSE])

\* The closure japanese maps over the collected parts (main.rs lines
\* 259-273): flatten, push every pair's typed and displayed, and default
\* (false) for fixed and disabled (struct TypingTarget, lines 9-17).
JapaneseMap(parts) ==
  Bind(Flatten(parts), LAMBDA items :
    [typed_chunks |-> [i \in 1..Len(items) |-> items[i].typed],
     displayed_chunks |-> [i \in 1..Len(items) |-> items[i].displayed],
     fixed |-> FALSE, disabled |-> FALSE])

\* What Parser::parse returns: Ok((output, rest of the input)) or Err.
Pending == [kind |-> "Pending", output |-> <<>>, rest |-> <<>>]

ParseOk(output, rest) == [kind |-> "Ok", output |-> output, rest |-> rest]

ParseErr == [kind |-> "Err", output |-> <<>>, rest |-> <<>>]

Rest(s, p) == SubSeq(s, p + 1, Len(s))

\* Mutant of the end of the repetition: many in place of many1.
many1_end_Many(parts, s, p) == ParseOk(JapaneseMap(parts), Rest(s, p))

\* many1 of main.rs line 255 when the choice fails without consuming: an
\* error if not one part was collected, otherwise the mapped parts and the
\* unconsumed rest.
many1_end(parts, s, p) ==
  IF parts = <<>> THEN ParseErr ELSE ParseOk(JapaneseMap(parts), Rest(s, p))

\* The strings main feeds the parsers (main.rs lines 343, 346, 350, 354, 357).
MainInputs ==
  { <<"U+4EAC", "(", "hira_TO", "hira_KA", "hira_N", "hira_DA", "hira_TO", ")">>,
    <<"hira_O", "hira_TI", "hira_small_YA", "hira_WO", "hira_NO", "hira_MU">>,
    <<"1", "1", "(", "hira_ZI", "hira_small_YU", "hira_U", "hira_I", "hira_TI", ")",
      "U+6708", "(", "hira_GA", "hira_TU", ")",
      "1", "U+65E5", "(", "hira_TU", "hira_I", "hira_TA", "hira_TI", ")">>,
    <<"U+5C71", "(", "hira_YA", "hira_MA", ")", "kata_NO",
      "U+5185", "(", "hira_U", "hira_TI", ")", "U+753A", "(", "hira_MA", "hira_TI", ")">>,
    <<"kata_NO", "U+5185", "(", "hira_U", "hira_TI", ")">> }

\* Further inputs: a mora with a second conventional spelling, the katakana
\* digraph of the table, both sokuon before a vowel and before a digraph, a
\* kana between a kanji and its reading, a reading that is not kana.
MoreInputs ==
  { <<"hira_SI">>,
    <<"kata_U", "kata_small_E">>,
    <<"hira_small_TU", "hira_A">>,
    <<"kata_small_TU", "kata_KI", "kata_small_YA">>,
    <<"U+5C71", "hira_NO", "(", "hira_YA", "hira_MA", ")">>,
    <<"hira_A", "hira_small_YA">>,
    <<"U+4EAC", "(", "a", "b", "c", ")">>,
    <<"U+4EAC", "(", "hira_small_TU", "hira_KI", "hira_small_YA", ")", "hira_KA">> }

\* The characters the bounded inputs are drawn from: a mora without
\* digraphs, a mora with digraphs, a sutegana, a sokuon, a kanji and the two
\* parentheses.
Alphabet == {"hira_KA", "hira_KI", "hira_small_YA", "hira_small_TU", "U+4EAC", "(", ")"}

BoundedSeq(S, n) == UNION {[1..k -> S] : k \in 0..n}

Texts == BoundedSeq(Alphabet, MaxLen) \cup MainInputs \cup MoreInputs

\* Kana units with a table entry, built from a few morae and sutegana, each
\* with or without a sokuon before it.
UnitMorae == {"hira_KA", "hira_KI", "hira_A"}

UnitSutegana == {"hira_small_YA"}

UnitKeys ==
  {k \in {<<m>> : m \in UnitMorae} \cup (UnitMorae \X UnitSutegana) :
     kana_to_typed_chunks(k).some}

Units == [sokuon : {None, Some("hira_small_TU")}, key : UnitKeys]

UnitText(u) == (IF u.sokuon.some THEN <<u.sokuon.val>> ELSE <<>>) \o u.key

UnitsText(us) == Flatten([i \in 1..Len(us) |-> UnitText(us[i])])

\* Characters that are neither kana nor '(': a kanji, a digit, and ')'.
RunChars == {"U+4EAC", "1", ")"}

\* A run annotated with a reading made of kana units: run ( units ).
FuriganaText(run, us) == run \o <<"(">> \o UnitsText(us) \o <<")">>

\* main: the parser it calls (entry), the string it is given (input), and
\* the parse not yet started.  gen records how the string was built: any
\* text, a concatenation of kana units, or a run with a reading in
\* parentheses.  japanese() is given all of them, parenthetical() the sample
\* strings and the runs with a reading.
Init ==
  /\ \/ /\ gen = [kind |-> "text", run |-> <<>>, units |-> <<>>]
        /\ input \in Texts
        /\ entry = "japanese"
     \/ /\ gen = [kind |-> "text", run |-> <<>>, units |-> <<>>]
        /\ input \in MainInputs \cup MoreInputs
        /\ entry = "parenthetical"
     \/ /\ \E us \in BoundedSeq(Units, MaxUnits) :
             /\ gen = [kind |-> "units", run |-> <<>>, units |-> us]
             /\ input = UnitsText(us)
        /\ entry = "japanese"
     \/ /\ \E run \in BoundedSeq(RunChars, MaxRun) \ {<<>>} :
             \E us \in BoundedSeq(Units, MaxReading) :
               /\ gen = [kind |-> "furigana", run |-> run, units |-> us]
               /\ input = FuriganaText(run, us)
        /\ entry \in {"japanese", "parenthetical"}
  /\ pos = 0
  /\ part = <<>>
  /\ last = "start"
  /\ result = Pending

\* One iteration of many1 in japanese in which kana_chunk succeeds.
KanaChunkStep ==
  /\ entry = "japanese" /\ result.kind = "Pending"
  /\ \E r \in {choice(input, pos)} :
       /\ r.st = "Ok" /\ r.alt = "kana_chunk"
       /\ part' = Append(part, r.out)
       /\ pos' = r.pos
  /\ last' = "kana_chunk"
  /\ UNCHANGED <<entry, input, gen, result>>

\* One iteration of many1 in japanese in which kana_chunk fails without
\* consuming and parenthetical succeeds.
ParentheticalStep ==
  /\ entry = "japanese" /\ result.kind = "Pending"
  /\ \E r \in {choice(input, pos)} :
       /\ r.st = "Ok" /\ r.alt = "parenthetical"
       /\ part' = Append(part, r.out)
       /\ pos' = r.pos
  /\ last' = "parenthetical"
  /\ UNCHANGED <<entry, input, gen, result>>

\* The choice fails after consuming: many1, and with it the parse, fails.
ChoiceCommitErr ==
  /\ entry = "japanese" /\ result.kind = "Pending"
  /\ choice(input, pos).st = "CommitErr"
  /\ result' = ParseErr
  /\ last' = "error"
  /\ UNCHANGED <<entry, input, gen, pos, part>>

\* The choice fails without consuming: many1 ends.
ChoicePeekErr ==
  /\ entry = "japanese" /\ result.kind = "Pending"
  /\ choice(input, pos).st = "PeekErr"
  /\ result' = many1_end(part, input, pos)
  /\ last' = "end"
  /\ UNCHANGED <<entry, input, gen, pos, part>>

\* parenthetical().parse(input) of main.rs line 343.
ParentheticalParse ==
  /\ entry = "parenthetical" /\ result.kind = "Pending"
  /\ \E r \in {parenthetical(input, 0)} :
       /\ result' = IF r.st = "Ok" THEN ParseOk(r.out, Rest(input, r.pos)) ELSE ParseErr
       /\ pos' = IF r.st = "Ok" THEN r.pos ELSE pos
  /\ last' = "parenthetical"
  /\ UNCHANGED <<entry, input, gen, part>>

Next ==
  \/ KanaChunkStep
  \/ ParentheticalStep
  \/ ChoiceCommitErr
  \/ ChoicePeekErr
  \/ ParentheticalParse

Spec == Init /\ [][Next]_vars

\* The parse is a sequential computation: it runs until it returns.
FairSpec == Spec /\ WF_vars(Next)


(***************************************************************************)
(* Vocabulary of the properties.                                           *)
(***************************************************************************)
Done == result.kind # "Pending"

Japanese == entry = "japanese"

LastOf(seq) == seq[Len(seq)]

MORA == HIRAGANA \cup KATAKANA

IsKana(c) == c \in (HIRAGANA \cup KATAKANA \cup SUTEGANA \cup SOKUON)

Has(s, c) == \E i \in 1..Len(s) : s[i] = c

\* The romanized reading of a kana unit: the table's spelling of its key,
\* preceded by the first letter of that spelling if the unit has a sokuon.
UnitSpelling(u) ==
  (IF u.sokuon.some THEN <<Head(kana_to_typed_chunks(u.key).val)>> ELSE <<>>)
  \o kana_to_typed_chunks(u.key).val

(***************************************************************************)
(* C1.  Coverage.                                                          *)
(***************************************************************************)

\* C1 as stated: for every input that is a concatenation of table-recognized
\* kana units, each optionally preceded by a sokuon, japanese() succeeds and
\* the concatenation of displayed_chunks is the input.
C1_CoverageAsStated ==
  (Japanese /\ Done /\ gen.kind = "units")
    => /\ result.kind = "Ok"
       /\ Flatten(result.output.displayed_chunks) = input

\* C1 amended: for every non-empty input that is a concatenation of
\* table-recognized kana units, each optionally preceded by a sokuon,
\* japanese() succeeds, consumes the whole input, and the concatenation of
\* displayed_chunks is the input, character for character.
C1_CoverageNonEmpty ==
  (Japanese /\ Done /\ gen.kind = "units" /\ gen.units # <<>>)
    => /\ result.kind = "Ok"
       /\ result.rest = <<>>
       /\ Flatten(result.output.displayed_chunks) = input

C1_Witness ==
  /\ Japanese /\ Done /\ gen.kind = "units" /\ result.kind = "Ok"
  /\ Len(gen.units) >= 2
  /\ \E i \in 1..Len(gen.units) : gen.units[i].sokuon.some
  /\ \E i \in 1..Len(gen.units) : Len(gen.units[i].key) = 2
  /\ Flatten(result.output.displayed_chunks) = input

(***************************************************************************)
(* C2.  Error results.                                                     *)
(***************************************************************************)

\* C2 as stated: for every input the chunker returns a chunk sequence and
\* never an error result.
C2_NeverAnError == (Japanese /\ Done) => result.kind = "Ok"

\* Inputs on which japanese() fails: the empty string; a leading '('; with
\* no '(' anywhere, a character that is not kana, or a sokuon not followed
\* by a mora; a start that is neither mora nor sokuon with no ')' anywhere;
\* a start that is neither mora nor sokuon nor '(' whose first '(' is
\* followed, before any ')', by a character that is not kana.
ErrorInput(s) ==
  \/ s = <<>>
  \/ s # <<>> /\ Head(s) = "("
  \/ ~Has(s, "(") /\ \E i \in 1..Len(s) : ~IsKana(s[i])
  \/ ~Has(s, "(") /\ \E i \in 1..Len(s) :
        s[i] \in SOKUON /\ (i = Len(s) \/ s[i + 1] \notin MORA)
  \/ s # <<>> /\ Head(s) \notin (MORA \cup SOKUON) /\ ~Has(s, ")")
  \/ /\ s # <<>> /\ Head(s) \notin (MORA \cup SOKUON \cup {"("})
     /\ \E i \in 1..Len(s) : \E j \in (i + 1)..Len(s) :
          /\ s[i] = "(" /\ \A k \in 1..(i - 1) : s[k] # "("
          /\ ~IsKana(s[j]) /\ \A k \in (i + 1)..j : s[k] # ")"

\* C2 amended: japanese() returns an error result on each of the inputs
\* above (among them the empty string, a sokuon not followed by a mora, a
\* non-kana character not followed by a parenthetical, a non-kana run whose
\* '(' is never closed, non-kana text inside parentheses); and whenever it
\* returns a chunk sequence it has consumed at least one character and the
\* unconsumed rest of the input is empty or begins with '('.
C2_ErrorsAndPartialResults ==
  (Japanese /\ Done)
    => /\ ErrorInput(input) => result.kind = "Err"
       /\ result.kind = "Ok"
            => /\ pos >= 1
               /\ result.rest = Rest(input, pos)
               /\ result.rest = <<>> \/ Head(result.rest) = "("

C2_Witness ==
  /\ Japanese /\ Done /\ result.kind = "Err"
  /\ Len(input) >= 4 /\ Head(input) = "U+4EAC" /\ Has(input, "(") /\ Has(input, ")")
  /\ ErrorInput(input)

(***************************************************************************)
(* C3.  Furigana.                                                          *)
(***************************************************************************)

\* The string main gives parenthetical() (main.rs line 343).
KyoSample == <<"U+4EAC", "(", "hira_TO", "hira_KA", "hira_N", "hira_DA", "hira_TO", ")">>

\* C3 as stated: a run of non-kana text followed by '(' content ')' gives
\* exactly one chunk, displayed the run, accepted the literal text between
\* the parentheses; the sample of main gives the kanji with its five kana.
C3_LiteralReading ==
  /\ (entry = "parenthetical" /\ Done /\ gen.kind = "furigana")
       => /\ result.kind = "Ok"
          /\ result.output = DisplayedTypedPair(gen.run, UnitsText(gen.units))
  /\ (entry = "parenthetical" /\ Done /\ input = KyoSample)
       => /\ result.kind = "Ok"
          /\ result.output =
               DisplayedTypedPair(<<"U+4EAC">>, SubSeq(KyoSample, 3, 7))

\* C3 amended: a run of characters that are neither kana nor '(', followed
\* by '(' kana units with table entries ')', gives exactly one chunk:
\* displayed is the run and typed is the concatenation of the romanized
\* spellings of the units between the parentheses (a sokuon gives the first
\* letter of the spelling after it), not the literal text; the whole input
\* is consumed.  This holds of parenthetical() and of japanese().  The
\* sample of main gives the kanji with the one spelling tokanndato.
C3_RomanizedReading ==
  /\ (Done /\ gen.kind = "furigana")
       => LET reading ==
                Flatten([i \in 1..Len(gen.units) |-> UnitSpelling(gen.units[i])])
          IN  /\ result.kind = "Ok"
              /\ result.rest = <<>>
              /\ entry = "parenthetical"
                   => result.output = DisplayedTypedPair(gen.run, reading)
              /\ entry = "japanese"
                   => /\ result.output.displayed_chunks = <<gen.run>>
                      /\ result.output.typed_chunks = <<reading>>
  /\ (Done /\ input = KyoSample)
       => LET tokanndato == <<"t", "o", "k", "a", "n", "n", "d", "a", "t", "o">>
          IN  /\ result.kind = "Ok"
              /\ result.rest = <<>>
              /\ entry = "parenthetical"
                   => result.output = DisplayedTypedPair(<<"U+4EAC">>, tokanndato)
              /\ entry = "japanese"
                   => /\ result.output.displayed_chunks = << <<"U+4EAC">> >>
                      /\ result.output.typed_chunks = <<tokanndato>>

C3_Witness ==
  /\ Done /\ gen.kind = "furigana" /\ entry = "parenthetical"
  /\ Len(gen.units) = 2 /\ gen.units[1].sokuon.some /\ Len(gen.units[2].key) = 2
  /\ result.kind = "Ok"
  /\ result.output.typed # UnitsText(gen.units)

(***************************************************************************)
(* C4.  Sokuon.                                                            *)
(***************************************************************************)

\* C4: when an iteration of kana_chunk consumes a sokuon followed by a mora
\* or digraph that has a table entry, it emits exactly two chunks in this
\* order: the sokuon with the first letter of the spelling, then the kana
\* with the whole spelling.
C4_SokuonDoubling ==
  [][ ( /\ Japanese /\ last' = "kana_chunk" /\ part' # part
        /\ input[pos + 1] \in SOKUON
        /\ kana_to_typed_chunks(SubSeq(input, pos + 2, pos')).some )
      => LastOf(part') =
           << DisplayedTypedPair(<<input[pos + 1]>>,
                <<Head(kana_to_typed_chunks(SubSeq(input, pos + 2, pos')).val)>>),
              DisplayedTypedPair(SubSeq(input, pos + 2, pos'),
                kana_to_typed_chunks(SubSeq(input, pos + 2, pos')).val) >> ]_vars

C4_Witness ==
  /\ Japanese /\ last = "kana_chunk" /\ part # <<>>
  /\ LastOf(part) = << DisplayedTypedPair(<<"hira_small_TU">>, <<"k">>),
                       DisplayedTypedPair(<<"hira_KA">>, <<"k", "a">>) >>

(***************************************************************************)
(* C5.  Kana runs.                                                         *)
(***************************************************************************)

\* C5: for an input that is a concatenation of table keys without sokuon,
\* japanese() yields one chunk per key, in order, displayed the key and typed
\* its table spelling, a digraph key being one chunk; so "ki, small ya" is one
\* chunk kya and "o, chi, small ya, wo, no, mu" is o, cha, wo, no, mu.
C5_OneChunkPerKey ==
  /\ ( /\ Japanese /\ Done /\ gen.kind = "units" /\ gen.units # <<>>
       /\ \A i \in 1..Len(gen.units) : ~gen.units[i].sokuon.some )
       => /\ result.kind = "Ok"
          /\ result.rest = <<>>
          /\ result.output.displayed_chunks =
               [i \in 1..Len(gen.units) |-> gen.units[i].key]
          /\ result.output.typed_chunks =
               [i \in 1..Len(gen.units) |-> kana_to_typed_chunks(gen.units[i].key).val]
  /\ (Japanese /\ Done /\ input = <<"hira_KI", "hira_small_YA">>)
       => /\ result.kind = "Ok"
          /\ result.output.displayed_chunks = << <<"hira_KI", "hira_small_YA">> >>
          /\ result.output.typed_chunks = << <<"k", "y", "a">> >>
  /\ ( /\ Japanese /\ Done
       /\ input = <<"hira_O", "hira_TI", "hira_small_YA", "hira_WO", "hira_NO", "hira_MU">> )
       => /\ result.kind = "Ok"
          /\ result.output.displayed_chunks =
               << <<"hira_O">>, <<"hira_TI", "hira_small_YA">>, <<"hira_WO">>,
                  <<"hira_NO">>, <<"hira_MU">> >>
          /\ result.output.typed_chunks =
               << <<"o">>, <<"c", "h", "a">>, <<"w", "o">>, <<"n", "o">>, <<"m", "u">> >>

C5_Witness ==
  /\ Japanese /\ Done /\ gen.kind = "units" /\ result.kind = "Ok"
  /\ Len(gen.units) = 3
  /\ \A i \in 1..3 : ~gen.units[i].sokuon.some
  /\ gen.units[2].key = <<"hira_KI", "hira_small_YA">>
  /\ Len(result.output.typed_chunks) = 3

(***************************************************************************)
(* C6.  A sutegana that does not combine.                                  *)
(***************************************************************************)

\* C6: a sutegana after a mora is consumed with it only if the pair has a
\* table entry; when the pair has none, the iteration stops after the mora,
\* the mora alone yields its chunk, and the sutegana is left for the next
\* iteration.
C6_SuteganaNotAbsorbed ==
  [][ ( /\ Japanese /\ last' = "kana_chunk" /\ part' # part
        /\ input[pos + 1] \in MORA
        /\ pos + 2 <= Len(input) /\ input[pos + 2] \in SUTEGANA
        /\ ~kana_to_typed_chunks(<<input[pos + 1], input[pos + 2]>>).some )
      => /\ pos' = pos + 1
         /\ LastOf(part') =
              << DisplayedTypedPair(<<input[pos + 1]>>,
                   kana_to_typed_chunks(<<input[pos + 1]>>).val) >> ]_vars

(***************************************************************************)
(* C7.  Progress and termination.                                          *)
(***************************************************************************)

\* C7: every iteration of the main loop, also one that emits no chunk,
\* advances the cursor by at least one character, and the parse of every
\* input eventually returns.
C7_ProgressAndTermination ==
  /\ [][part' # part => pos' > pos]_vars
  /\ <>Done

C7_Witness ==
  /\ Japanese /\ Done /\ Len(part) >= 2
  /\ \E i \in 1..Len(part) : part[i] = <<>>
  /\ pos = Len(input)

(***************************************************************************)
(* C8.  Non-empty chunks.                                                  *)
(***************************************************************************)

\* C8: in every successful result of japanese(), displayed_chunks and
\* typed_chunks have the same length and every displayed_chunks[i] and every
\* typed_chunks[i] is a non-empty string, the chunks of the furigana rule
\* included.
C8_NonEmptyChunks ==
  (Japanese /\ Done /\ result.kind = "Ok")
    => /\ Len(result.output.displayed_chunks) = Len(result.output.typed_chunks)
       /\ \A i \in 1..Len(result.output.displayed_chunks) :
            /\ result.output.displayed_chunks[i] # <<>>
            /\ result.output.typed_chunks[i] # <<>>

(***************************************************************************)
(* C9.  Spellings of a mora.                                               *)
(***************************************************************************)

\* The accepted spellings of chunk i of a TypingTarget: typed_chunks holds
\* one String per chunk.
Accepted(target, i) == <<target.typed_chunks[i]>>

\* C9 as stated: the input "shi" (hiragana) gives the single chunk whose
\* accepted list is shi, si in this order.
C9_TwoSpellings ==
  (Japanese /\ Done /\ input = <<"hira_SI">>)
    => /\ result.kind = "Ok"
       /\ result.output.displayed_chunks = << <<"hira_SI">> >>
       /\ Accepted(result.output, 1) = << <<"s", "h", "i">>, <<"s", "i">> >>

\* C9 amended: every chunk whose displayed text is a table key carries
\* exactly one spelling, the one the table gives the key; the input "shi"
\* (hiragana) gives the single chunk displayed "shi" with the one spelling
\* shi.
C9_OneSpelling ==
  /\ (Japanese /\ Done /\ result.kind = "Ok")
       => \A i \in 1..Len(result.output.displayed_chunks) :
            kana_to_typed_chunks(result.output.displayed_chunks[i]).some
              => Accepted(result.output, i) =
                   <<kana_to_typed_chunks(result.output.displayed_chunks[i]).val>>
  /\ (Japanese /\ Done /\ input = <<"hira_SI">>)
       => /\ result.kind = "Ok"
          /\ result.rest = <<>>
          /\ result.output.displayed_chunks = << <<"hira_SI">> >>
          /\ Accepted(result.output, 1) = << <<"s", "h", "i">> >>

C9_Witness ==
  /\ Japanese /\ Done /\ result.kind = "Ok" /\ input = <<"hira_SI">>
  /\ Accepted(result.output, 1) = << <<"s", "h", "i">> >>

(***************************************************************************)
(* C10.  The displayed text of a furigana chunk.                           *)
(***************************************************************************)

\* C10: the displayed text of every chunk the furigana rule produces holds
\* no hiragana, katakana, sokuon or sutegana character.
C10_FuriganaDisplayedHasNoKana ==
  (Japanese /\ last = "parenthetical")
    => \A i \in 1..Len(LastOf(part)[1].displayed) :
         ~IsKana(LastOf(part)[1].displayed[i])

====
